---- MODULE Spec2Model ----
(***************************************************************************)
(* The caching and resolution engine of backend/core/views.py: the startup *)
(* connection to the cache store (initialize_redis_client), the date       *)
(* resolver (resolve_date_param), the two geocoding adapters, the two      *)
(* pattern shortcuts, the resolver get_sunspot and the handler             *)
(* sunspot_view.                                                           *)
(*                                                                         *)
(* Each worker handles one request at a time.  A request is cut into steps *)
(* at its interactions with shared state: a store operation                *)
(* (keys / get / set) and a read of the wall clock (date.today()).  The    *)
(* providers hold no state the model observes, so a provider call is a     *)
(* nondeterministic choice of its outcome.  The store expires entries      *)
(* passively (Expire), becomes unreachable and reachable again             *)
(* (RedisDown, RedisUp), and the calendar day advances (Midnight).         *)
(*                                                                         *)
(* Strings are TLA+ strings.  A key is the sequence of the segments that   *)
(* key.split(":") yields.  City names hold neither ":" nor a glob          *)
(* character, so that "*" in a pattern stands for whole segments.          *)
(***************************************************************************)
EXTENDS Integers, Sequences, FiniteSets, TLC

(***************************************************************************)
(* Bounds of the model.                                                    *)
(***************************************************************************)
\* requests served in one behaviour
MaxRequests == 3
\* times the calendar day advances in one behaviour
MaxMidnights == 1
\* the latest day the date resolver is called on, in SpecDate
MaxDay == 9

\* the workers; Spec runs the first alone, SpecConcurrent runs both
Workers == {"w1", "w2"}
Sequential == {"w1"}

(***************************************************************************)
(* Settings and inputs.                                                    *)
(***************************************************************************)
\* getattr(settings, "REDIS_CONN_RETRY_COUNT", 3)
REDIS_CONN_RETRY_COUNT == 3
\* settings.REDIS_KEY_PREFIX, "sunspot:data" split at ":"
REDIS_KEY_PREFIX == <<"sunspot", "data">>
\* settings.CACHE_TTL, the one expiry the resolver writes with
CACHE_TTL == "settings.CACHE_TTL"

\* The query strings the workers are given: (city, lat, lon, date), "" for an
\* absent parameter.
CityRequests == {"Paris", "PARIS"} \X {""} \X {""} \X {"", "Tomorrow", "2024-01-31"}
CoordsRequests == {""} \X {"40", "40.0"} \X {"2.0"} \X {"", "Tomorrow", "2024-01-31"}
BadDateRequests ==
    {<<"Paris", "", "", "not-a-date">>, <<"", "40", "2.0", "not-a-date">>,
     <<"Paris", "", "", "08335394550">>, <<"", "40", "2.0", "08335394550">>,
     <<"", "abc", "2.0", "not-a-date">>, <<"", "", "", "not-a-date">>}
BadLocationRequests ==
    {<<"", "abc", "2.0", "">>, <<"", "40", "x", "">>, <<"", "40", "", "">>,
     <<"", "", "", "">>}
BothRequests == {<<"Paris", "40", "2.0", "">>, <<"Paris", "abc", "2.0", "">>}
Requests ==
    CityRequests \cup CoordsRequests \cup BadDateRequests \cup BadLocationRequests
        \cup BothRequests
\* the query strings of SpecEdge: a city, a blank city, coordinates
EdgeRequests ==
    {<<"Paris", "", "", "">>, <<" ", "", "", "">>, <<"", "41.5", "2.0", "">>}
\* the query strings of SpecConcurrent
ConcurrentRequests == {q \in CityRequests \cup CoordsRequests : q[4] = ""}

\* what the search endpoint of the geocoding provider answers: (lat, lon) texts
GeocodeResults == {<<"41.5", "2.0">>}

\* ... and one whose latitude text is not the rendering of a float
EdgeGeocodeResults == GeocodeResults \cup {<<"40", "2.0">>}

\* what the reverse endpoint does: it answers with an address, its fields city,
\* town, village and hamlet in this order ("" for a field that is absent or
\* empty), or the call raises (no connection, a status that is not 2xx)
Address(fields) == [tag |-> "ok", address |-> fields]
Failure(e) == [tag |-> e, address |-> <<>>]
NoReverse == [tag |-> "none", address |-> <<>>]
ReverseOutcomes == {Address(<<"Paris", "", "", "">>), Failure("Timeout")}

\* ... and the addresses with other fields set, or none, and the other failure
EdgeReverseOutcomes ==
    ReverseOutcomes
    \cup {Address(<<"", "", "", "">>), Failure("HTTPError")}
    \cup {Address(<<"", "Paris", "", "">>), Address(<<"", "", "Paris", "">>),
          Address(<<"", "", "", "Paris">>), Address(<<"Lyon", "Paris", "", "">>),
          Address(<<"", "Lyon", "Paris", "Paris">>),
          Address(<<"", "", "Lyon", "Paris">>)}
\* what the sun-times provider answers
SunApiOutcomes == {"OK", "OK_EMPTY", "NOT_OK", "ERROR"}

NoKey == <<>>
NoData == <<>>

(***************************************************************************)
(* str.lower(), str.strip(), str.title()                                   *)
(***************************************************************************)
Lower(s) ==
    CASE s = "Paris" -> "paris"
      [] s = "PARIS" -> "paris"
      [] s = "Lyon" -> "lyon"
      [] s = "Unknown" -> "unknown"
      [] s = "Tomorrow" -> "tomorrow"
      [] s \in {"Today", "TODAY", "tOdAy"} -> "today"
      [] s \in {"Yesterday", "YESTERDAY"} -> "yesterday"
      [] s \in {"TOMORROW", "tomorroW"} -> "tomorrow"
      [] OTHER -> s

Strip(s) ==
    CASE s = " " -> ""
      [] s = " Paris" -> "Paris"
      [] OTHER -> s

Title(s) ==
    CASE s \in {"paris", "PARIS", "Paris"} -> "Paris"
      [] s \in {"lyon", "Lyon"} -> "Lyon"
      [] s \in {"unknown", "Unknown", "UNKNOWN"} -> "Unknown"
      [] OTHER -> s

(***************************************************************************)
(* float(text) and str(float): a float is held as its tenfold, an integer. *)
(***************************************************************************)
Float_Lenient(s) ==
    CASE s \in {"40", "40.0"} -> [ok |-> TRUE, v |-> 400]
      [] s = "41.5" -> [ok |-> TRUE, v |-> 415]
      [] s \in {"2", "2.0"} -> [ok |-> TRUE, v |-> 20]
      [] s = "2.5" -> [ok |-> TRUE, v |-> 25]
      [] OTHER -> [ok |-> TRUE, v |-> 0]

Float(s) ==
    CASE s \in {"40", "40.0"} -> [ok |-> TRUE, v |-> 400]
      [] s = "41.5" -> [ok |-> TRUE, v |-> 415]
      [] s \in {"2", "2.0"} -> [ok |-> TRUE, v |-> 20]
      [] s = "2.5" -> [ok |-> TRUE, v |-> 25]
      [] OTHER -> [ok |-> FALSE, v |-> 0]

Str(f) == ToString(f \div 10) \o "." \o ToString(f % 10)

Canonical_Verbatim(text) == text

\* str(float(text)) of a text that parses
Canonical(text) == Str(Float(text).v)

(***************************************************************************)
(* Dates.  A date is its ordinal; ordinal 0 is 2024-01-30.                 *)
(***************************************************************************)
Pad2(n) == IF n < 10 THEN "0" \o ToString(n) ELSE ToString(n)

\* date.strftime('%Y-%m-%d')
Strftime(d) ==
    LET dom == 30 + d
    IN  IF dom <= 31 THEN "2024-01-" \o Pad2(dom) ELSE "2024-02-" \o Pad2(dom - 31)

\* dateutil.parser.parse: a date, ParserError (a ValueError), or OverflowError
ParserParse(s) ==
    CASE s \in {"2024-01-31", "31 Jan 2024"} -> [tag |-> "ok", v |-> 1]
      [] s \in {"2024-01-30"} -> [tag |-> "ok", v |-> 0]
      [] s = "08335394550" -> [tag |-> "OverflowError", v |-> 0]
      [] OTHER -> [tag |-> "ValueError", v |-> 0]

resolve_date_param_CaseSensitive(date_param, now) ==
    IF date_param = "" \/ date_param = "today"
    THEN [tag |-> "ok", v |-> Strftime(now)]
    ELSE IF date_param = "yesterday"
    THEN [tag |-> "ok", v |-> Strftime(now - 1)]
    ELSE IF date_param = "tomorrow"
    THEN [tag |-> "ok", v |-> Strftime(now + 1)]
    ELSE LET p == ParserParse(date_param)
         IN  CASE p.tag = "ok" -> [tag |-> "ok", v |-> Strftime(p.v)]
               [] p.tag = "ValueError" -> [tag |-> "None", v |-> ""]
               [] OTHER -> [tag |-> p.tag, v |-> ""]

\* resolve_date_param with date.today() = now: the result string, None, or the
\* exception that escapes it
resolve_date_param(date_param, now) ==
    IF date_param = "" \/ Lower(date_param) = "today"
    THEN [tag |-> "ok", v |-> Strftime(now)]
    ELSE IF Lower(date_param) = "yesterday"
    THEN [tag |-> "ok", v |-> Strftime(now - 1)]
    ELSE IF Lower(date_param) = "tomorrow"
    THEN [tag |-> "ok", v |-> Strftime(now + 1)]
    ELSE LET p == ParserParse(date_param)
         IN  CASE p.tag = "ok" -> [tag |-> "ok", v |-> Strftime(p.v)]
               [] p.tag = "ValueError" -> [tag |-> "None", v |-> ""]
               [] OTHER -> [tag |-> p.tag, v |-> ""]

(***************************************************************************)
(* Keys and patterns.                                                      *)
(***************************************************************************)
CacheKey_AsGiven(city_name, lat, lon, date_str) ==
    REDIS_KEY_PREFIX \o <<city_name, lat, lon, date_str>>

\* f"{prefix}:{city_name.lower()}:{lat}:{lon}:{resolved_date_str}"
CacheKey(city_name, lat, lon, date_str) ==
    REDIS_KEY_PREFIX \o <<Lower(city_name), lat, lon, date_str>>

\* f"{prefix}:{city_name.lower()}:*:{date_str}"
CityPattern(city_name, date_str) ==
    REDIS_KEY_PREFIX \o <<Lower(city_name), "*", date_str>>

\* f"{prefix}:*:{lat}:{lon}:{date_str}"
CoordsPattern(lat, lon, date_str) ==
    REDIS_KEY_PREFIX \o <<"*", lat, lon, date_str>>

\* the glob match of KEYS, segment by segment: "*" stands for any run of
\* characters, here any non-empty run of segments
RECURSIVE GlobMatch(_, _)
GlobMatch(pat, key) ==
    IF pat = <<>> THEN key = <<>>
    ELSE IF Head(pat) = "*"
    THEN \E n \in 1..Len(key) : GlobMatch(Tail(pat), SubSeq(key, n + 1, Len(key)))
    ELSE key # <<>> /\ Head(key) = Head(pat) /\ GlobMatch(Tail(pat), Tail(key))

\* key.split(":")[i], counted from 0 as the code does
KeyPart(key, i) == key[i + 1]

(***************************************************************************)
(* Payloads.                                                               *)
(***************************************************************************)
\* data["results"] of the sun-times provider for a query
SunResults(lat, lon, date_str) == <<Float(lat).v, Float(lon).v, date_str>>

JsonDumps_Repr(data) == <<"repr", data>>

\* json.dumps and json.loads
JsonDumps(data) == <<"json", data>>

JsonLoads_Trusting(text) == [ok |-> TRUE, v |-> text]

JsonLoads(text) ==
    IF text[1] = "json" THEN [ok |-> TRUE, v |-> text[2]] ELSE [ok |-> FALSE, v |-> NoData]

VARIABLES
    redis_client,     \* the module-level handle: "unset", "None" or "client"
    conn_retry_count, \* the attempt initialize_redis_client is at
    redisUp,          \* whether the store answers
    redis,            \* the store: key -> [val, ttl, note]
    today,            \* date.today(), as an ordinal
    pc,               \* where each worker's request stands
    req,              \* each worker's request: parameters, locals, response
    served,           \* requests begun
    api_keys,         \* ApiKey.objects: the key of each stored row
    mw,               \* the request passing APIKeyMiddleware
    environ,          \* os.environ of the frontend: SUNSPOT_API_KEY
    fe                \* the request the frontend is serving

\* the variables of the API key check and of the frontend
web == <<api_keys, mw, environ, fe>>

vars == <<redis_client, conn_retry_count, redisUp, redis, today, pc, req, served, web>>

\* an optional text: a header or an environment variable that is set, or None
Some(v) == [present |-> TRUE, value |-> v]
None == [present |-> FALSE, value |-> ""]

\* "not x" of an optional text: None or the empty string
Falsy(x) == ~x.present \/ x.value = ""

\* no request is passing the middleware
NoExchange ==
    [path |-> <<>>, header |-> None, at |-> "idle", status |-> 0, detail |-> "",
     calls |-> 0]

\* what requests.get came back with: nothing yet, a response, or an exception
NoAnswer == [tag |-> "none", status |-> 0]
Response(n) == [tag |-> "response", status |-> n]
RequestException == [tag |-> "RequestException", status |-> 0]

\* the frontend serves no request
NoFetch ==
    [route |-> "", city |-> "", lat |-> "", lon |-> "", date |-> "", at |-> "idle",
     path |-> <<>>, query |-> <<>>, header |-> None, sent |-> 0,
     backend |-> NoAnswer, status |-> 0, result |-> ""]

(***************************************************************************)
(* Responses.                                                              *)
(***************************************************************************)
NoResponse ==
    [status |-> 0, error |-> "", city |-> "", latitude |-> "", longitude |-> "",
     date_requested |-> "", sun_data |-> NoData, source |-> ""]

\* JsonResponse({"error": ...}, status=...)
ErrorResponse(status, error) == [NoResponse EXCEPT !.status = status, !.error = error]

\* JsonResponse({"city": ..., "latitude": ..., ..., "source": source})
SuccessResponse(city, lat, lon, date_str, sun_data, source) ==
    [status |-> 200, error |-> "", city |-> city, latitude |-> lat, longitude |-> lon,
     date_requested |-> date_str, sun_data |-> sun_data, source |-> source]

\* an exception nobody catches leaves sunspot_view: the framework answers 500
Unhandled == ErrorResponse(500, "unhandled exception")

\* a request before sunspot_view has run
NoRequest ==
    [city |-> "", lat_param |-> "", lon_param |-> "", date_param |-> "",
     city_name |-> "", lat |-> "", lon |-> "", resolved_date_str |-> "",
     pattern |-> NoKey, keys0 |-> NoKey,
     gs_city_name |-> "", gs_resolved_date_str |-> "", cache_key |-> NoKey,
     gs_source |-> "api", source |-> "api",
     nKeys |-> 0, nGet |-> 0, nSet |-> 0, nGeo |-> 0, nRev |-> 0, nSun |-> 0,
     geo |-> "none", sun |-> "none", wrote |-> NoKey, exc |-> "none",
     corrupt |-> FALSE, rev |-> NoReverse,
     resp |-> NoResponse]

Init ==
    /\ redis_client = "unset"
    /\ conn_retry_count = 1
    /\ redisUp \in BOOLEAN
    /\ redis = <<>>
    /\ today = 0
    /\ pc = [w \in Workers |-> "idle"]
    /\ req = [w \in Workers |-> NoRequest]
    /\ served = 0
    /\ api_keys = {}
    /\ mw = NoExchange
    /\ environ = [SUNSPOT_API_KEY |-> None]
    /\ fe = NoFetch

\* A finished request hands its response over before anything else happens:
\* nothing else reads it.
Returning == \E w \in Workers : pc[w] = "done"

(***************************************************************************)
(* initialize_redis_client: one attempt of the startup connection.         *)
(***************************************************************************)
initialize_redis_client_NoLimit ==
    /\ redis_client = "unset"
    /\ IF redisUp
       THEN /\ redis_client' = "client"
            /\ UNCHANGED conn_retry_count
       ELSE /\ conn_retry_count' = conn_retry_count + 1
            /\ UNCHANGED redis_client
    /\ UNCHANGED <<redisUp, redis, today, pc, req, served, web>>

initialize_redis_client_Reconnect ==
    /\ redis_client \in {"unset", "None"}
    /\ IF redisUp
       THEN /\ redis_client' = "client"
            /\ UNCHANGED conn_retry_count
       ELSE IF conn_retry_count < REDIS_CONN_RETRY_COUNT
       THEN /\ conn_retry_count' = conn_retry_count + 1
            /\ UNCHANGED redis_client
       ELSE /\ redis_client' = "None"
            /\ UNCHANGED conn_retry_count
    /\ UNCHANGED <<redisUp, redis, today, pc, req, served, web>>

initialize_redis_client ==
    /\ redis_client = "unset"
    /\ IF redisUp
       THEN /\ redis_client' = "client"
            /\ UNCHANGED conn_retry_count
       ELSE IF conn_retry_count < REDIS_CONN_RETRY_COUNT
       THEN /\ conn_retry_count' = conn_retry_count + 1
            /\ UNCHANGED redis_client
       ELSE /\ redis_client' = "None"
            /\ UNCHANGED conn_retry_count
    /\ UNCHANGED <<redisUp, redis, today, pc, req, served, web>>

(***************************************************************************)
(* The environment.                                                        *)
(***************************************************************************)
RedisDown ==
    /\ ~Returning
    /\ redisUp
    /\ redisUp' = FALSE
    /\ UNCHANGED <<redis_client, conn_retry_count, redis, today, pc, req, served, web>>

RedisUp ==
    /\ ~Returning
    /\ ~redisUp
    /\ redisUp' = TRUE
    /\ UNCHANGED <<redis_client, conn_retry_count, redis, today, pc, req, served, web>>

\* an entry's expiry passes: the store drops it
Expire ==
    /\ ~Returning
    /\ \E k \in DOMAIN redis :
          redis' = [j \in DOMAIN redis \ {k} |-> redis[j]]
    /\ UNCHANGED <<redis_client, conn_retry_count, redisUp, today, pc, req, served, web>>

Midnight ==
    /\ ~Returning
    /\ today < MaxMidnights
    /\ today' = today + 1
    /\ UNCHANGED <<redis_client, conn_retry_count, redisUp, redis, pc, req, served, web>>

\* a stored value no longer decodes (json.loads raises JSONDecodeError on it):
\* another writer, or a truncated value
Corrupt ==
    /\ ~Returning
    /\ \E k \in DOMAIN redis :
          /\ JsonLoads(redis[k].val).ok
          /\ redis' = [redis EXCEPT ![k].val = <<"not json">>]
    /\ UNCHANGED <<redis_client, conn_retry_count, redisUp, today, pc, req, served, web>>

(***************************************************************************)
(* The request handler and the resolver.                                   *)
(***************************************************************************)
\* (None, None): the geocoding adapter's "not found"
NotFound == <<"", "">>

WithResponse(r, resp) == [r EXCEPT !.resp = resp]
Raise(r, e) == [r EXCEPT !.exc = e, !.resp = Unhandled]

\* return JsonResponse(...): the worker is free again
return_response(w) ==
    /\ pc[w] = "done"
    /\ pc' = [pc EXCEPT ![w] = "idle"]
    /\ req' = [req EXCEPT ![w] = NoRequest]
    /\ UNCHANGED <<redis_client, conn_retry_count, redisUp, redis, today, served, web>>

Step(w, r, at) ==
    /\ req' = [req EXCEPT ![w] = r]
    /\ pc' = [pc EXCEPT ![w] = at]

CacheAvailable_Always(client) == TRUE

\* "if redis_client": the handle is a client, not None
CacheAvailable(client) == client # "None"

Found_Always(lat, lon) == TRUE

\* "if not lat or not lon" of sunspot_view, negated
Found(lat, lon) == lat # "" /\ lon # ""

UpstreamUnavailable_NotFound == ErrorResponse(404, "Could not retrieve sunspot data")

\* the answer when no sun data came back
UpstreamUnavailable == ErrorResponse(503, "Could not retrieve sunspot data")

\* sunspot_view from its entry to its first store operation or provider call:
\* the request's record and where it goes on
ViewEntry(r0, now, client) ==
    LET d == resolve_date_param(r0.date_param, now)
    IN  IF r0.city # ""
        THEN LET r1 == [r0 EXCEPT !.city_name = Strip(r0.city)]
             IN  CASE d.tag = "None" ->
                        <<WithResponse(r1, ErrorResponse(400, "Invalid date parameter")), "done">>
                   [] d.tag = "ok" ->
                        IF ~CacheAvailable(client)
                        THEN <<[r1 EXCEPT !.resolved_date_str = d.v], "get_coordinates">>
                        ELSE <<[r1 EXCEPT !.resolved_date_str = d.v,
                                          !.pattern = CityPattern(Lower(r1.city_name), d.v)],
                               "city_keys">>
                   [] OTHER -> <<Raise(r1, d.tag), "done">>
        ELSE IF r0.lat_param # "" /\ r0.lon_param # ""
        THEN IF ~Float(r0.lat_param).ok \/ ~Float(r0.lon_param).ok
             THEN <<WithResponse(r0, ErrorResponse(400, "Invalid lat/lon format")), "done">>
             ELSE LET r1 == [r0 EXCEPT !.lat = Canonical(r0.lat_param),
                                       !.lon = Canonical(r0.lon_param)]
                  IN  CASE d.tag = "None" ->
                             <<WithResponse(r1, ErrorResponse(400, "Invalid date parameter")), "done">>
                        [] d.tag = "ok" ->
                             IF ~CacheAvailable(client)
                             THEN <<[r1 EXCEPT !.resolved_date_str = d.v], "get_sunspot">>
                             ELSE <<[r1 EXCEPT !.resolved_date_str = d.v,
                                               !.pattern = CoordsPattern(r1.lat, r1.lon, d.v)],
                                    "coords_keys">>
                        [] OTHER -> <<Raise(r1, d.tag), "done">>
        ELSE <<WithResponse(r0, ErrorResponse(400, "Missing city or lat/lon")), "done">>

\* a worker takes a request
sunspot_view(w, queries) ==
    /\ ~Returning
    /\ redis_client # "unset"
    /\ pc[w] = "idle"
    /\ served < MaxRequests
    /\ served' = served + 1
    /\ \E q \in queries :
          LET r0 == [NoRequest EXCEPT !.city = q[1], !.lat_param = q[2],
                                      !.lon_param = q[3], !.date_param = q[4]]
              e == ViewEntry(r0, today, redis_client)
          IN  Step(w, e[1], e[2])
    /\ UNCHANGED <<redis_client, conn_retry_count, redisUp, redis, today, web>>

\* redis_client.keys(pattern): the matching keys; the one enumerated first is any
Keys(store, pattern) == {k \in DOMAIN store : GlobMatch(pattern, k)}

Get_Miss(store, key) == [hit |-> FALSE, sun_data |-> NoData, corrupt |-> FALSE]

\* redis_client.get(key) and json.loads of it: the payload, or a miss (nothing
\* stored, or a JSONDecodeError that the caller catches)
Get(store, key) ==
    IF key \in DOMAIN store /\ JsonLoads(store[key].val).ok
    THEN [hit |-> TRUE, sun_data |-> JsonLoads(store[key].val).v, corrupt |-> FALSE]
    ELSE [hit |-> FALSE, sun_data |-> NoData, corrupt |-> key \in DOMAIN store]

CityHitResponse_WrongParts(r, k0, sun_data) ==
    SuccessResponse(Title(r.city_name), KeyPart(k0, 2), KeyPart(k0, 3),
                    r.resolved_date_str, sun_data, "cache")

\* the response of a city-shortcut hit
CityHitResponse(r, k0, sun_data) ==
    SuccessResponse(Title(r.city_name), KeyPart(k0, 3), KeyPart(k0, 4),
                    r.resolved_date_str, sun_data, "cache")

CoordsHitResponse_Location(r, k0, sun_data) ==
    SuccessResponse("Location " \o r.lat \o ", " \o r.lon, r.lat, r.lon,
                    r.resolved_date_str, sun_data, "cache")

\* the response of a coordinate-shortcut hit
CoordsHitResponse(r, k0, sun_data) ==
    SuccessResponse(Title(KeyPart(k0, 2)), r.lat, r.lon,
                    r.resolved_date_str, sun_data, "cache")

ShortcutKeys_Rescan(w, at, hitAt, missAt) ==
    /\ ~Returning
    /\ pc[w] = at
    /\ LET r == [req[w] EXCEPT !.nKeys = @ + 1]
       IN  IF ~redisUp
           THEN Step(w, Raise(r, "ConnectionError"), "done")
           ELSE IF Keys(redis, r.pattern) = {}
           THEN Step(w, r, IF r.nKeys < 2 THEN at ELSE missAt)
           ELSE \E k0 \in Keys(redis, r.pattern) : Step(w, [r EXCEPT !.keys0 = k0], hitAt)
    /\ UNCHANGED <<redis_client, conn_retry_count, redisUp, redis, today, served, web>>

\* the pattern scan of get_cached_sunspot_by_city / get_cached_sunspot_by_coords
ShortcutKeys(w, at, hitAt, missAt) ==
    /\ ~Returning
    /\ pc[w] = at
    /\ LET r == [req[w] EXCEPT !.nKeys = @ + 1]
       IN  IF ~redisUp
           THEN Step(w, Raise(r, "ConnectionError"), "done")
           ELSE IF Keys(redis, r.pattern) = {}
           THEN Step(w, r, missAt)
           ELSE \E k0 \in Keys(redis, r.pattern) : Step(w, [r EXCEPT !.keys0 = k0], hitAt)
    /\ UNCHANGED <<redis_client, conn_retry_count, redisUp, redis, today, served, web>>

get_cached_sunspot_by_city_keys(w) ==
    ShortcutKeys(w, "city_keys", "city_get", "get_coordinates")

get_cached_sunspot_by_coords_keys(w) ==
    ShortcutKeys(w, "coords_keys", "coords_get", "get_sunspot")

get_cached_sunspot_by_city_get_Refresh(w) ==
    /\ ~Returning
    /\ pc[w] = "city_get"
    /\ LET r == [req[w] EXCEPT !.nGet = @ + 1]
           g == Get(redis, r.keys0)
       IN  IF ~redisUp
           THEN Step(w, Raise(r, "ConnectionError"), "done") /\ UNCHANGED redis
           ELSE IF g.hit /\ KeyPart(r.keys0, 3) # "" /\ KeyPart(r.keys0, 4) # ""
           THEN /\ Step(w, WithResponse([r EXCEPT !.source = "cache"],
                                   CityHitResponse(r, r.keys0, g.sun_data)), "done")
                /\ redis' = [redis EXCEPT ![r.keys0].ttl = "refreshed"]
           ELSE Step(w, [r EXCEPT !.corrupt = g.corrupt], "get_coordinates") /\ UNCHANGED redis
    /\ UNCHANGED <<redis_client, conn_retry_count, redisUp, today, served, web>>

\* redis_client.get(keys[0]) of get_cached_sunspot_by_city, and the hit's return
get_cached_sunspot_by_city_get(w) ==
    /\ ~Returning
    /\ pc[w] = "city_get"
    /\ LET r == [req[w] EXCEPT !.nGet = @ + 1]
           g == Get(redis, r.keys0)
       IN  IF ~redisUp
           THEN Step(w, Raise(r, "ConnectionError"), "done")
           ELSE IF g.hit /\ KeyPart(r.keys0, 3) # "" /\ KeyPart(r.keys0, 4) # ""
           THEN Step(w, WithResponse([r EXCEPT !.source = "cache"],
                                CityHitResponse(r, r.keys0, g.sun_data)), "done")
           ELSE Step(w, [r EXCEPT !.corrupt = g.corrupt], "get_coordinates")
    /\ UNCHANGED <<redis_client, conn_retry_count, redisUp, redis, today, served, web>>

get_cached_sunspot_by_coords_get_TryNext(w) ==
    /\ ~Returning
    /\ pc[w] = "coords_get"
    /\ LET r == [req[w] EXCEPT !.nGet = @ + 1]
           g0 == Get(redis, r.keys0)
       IN  IF ~redisUp
           THEN Step(w, Raise(r, "ConnectionError"), "done")
           ELSE \E k \in (IF g0.hit THEN {r.keys0} ELSE Keys(redis, r.pattern) \cup {r.keys0}) :
                   LET g == Get(redis, k)
                   IN  IF g.hit /\ KeyPart(k, 2) # ""
                       THEN Step(w, WithResponse([r EXCEPT !.source = "cache"],
                                        CoordsHitResponse(r, k, g.sun_data)), "done")
                       ELSE Step(w, [r EXCEPT !.corrupt = g.corrupt], "get_sunspot")
    /\ UNCHANGED <<redis_client, conn_retry_count, redisUp, redis, today, served, web>>

\* redis_client.get(keys[0]) of get_cached_sunspot_by_coords, and the hit's return
get_cached_sunspot_by_coords_get(w) ==
    /\ ~Returning
    /\ pc[w] = "coords_get"
    /\ LET r == [req[w] EXCEPT !.nGet = @ + 1]
           g == Get(redis, r.keys0)
       IN  IF ~redisUp
           THEN Step(w, Raise(r, "ConnectionError"), "done")
           ELSE IF g.hit /\ KeyPart(r.keys0, 2) # ""
           THEN Step(w, WithResponse([r EXCEPT !.source = "cache"],
                                CoordsHitResponse(r, r.keys0, g.sun_data)), "done")
           ELSE Step(w, [r EXCEPT !.corrupt = g.corrupt], "get_sunspot")
    /\ UNCHANGED <<redis_client, conn_retry_count, redisUp, redis, today, served, web>>

\* get_coordinates_from_city, and the 404 of sunspot_view when it finds nothing
get_coordinates_from_city(w, results) ==
    /\ ~Returning
    /\ pc[w] = "get_coordinates"
    /\ \E found \in results \cup {NotFound} :
          LET r == [req[w] EXCEPT !.nGeo = @ + 1, !.lat = found[1], !.lon = found[2],
                                  !.geo = IF found = NotFound THEN "notfound" ELSE "found"]
          IN  IF ~Found(r.lat, r.lon)
              THEN Step(w, WithResponse(r, ErrorResponse(404, "Could not find coordinates for city")),
                        "done")
              ELSE Step(w, r, "get_sunspot")
    /\ UNCHANGED <<redis_client, conn_retry_count, redisUp, redis, today, served, web>>

\* sunspot_view after get_sunspot has returned (sun_data, date, city)
FinalResponse(r, sun_data, date_str, city) ==
    LET city_name == IF r.city # ""
                     THEN (IF sun_data # NoData THEN city ELSE r.city_name)
                     ELSE city
        r1 == [r EXCEPT !.city_name = city_name, !.resolved_date_str = date_str]
    IN  IF sun_data # NoData
        THEN WithResponse(r1, SuccessResponse(
                 IF city_name # "" THEN Title(city_name)
                 ELSE "Location " \o r.lat \o ", " \o r.lon,
                 r.lat, r.lon, date_str, sun_data, r.source))
        ELSE WithResponse(r1, UpstreamUnavailable)

get_city_from_coordinates_TownFirst(o) ==
    IF o.tag # "ok" THEN "Unknown"
    ELSE IF o.address[2] # "" THEN o.address[2]
    ELSE IF o.address[1] # "" THEN o.address[1]
    ELSE IF o.address[3] # "" THEN o.address[3]
    ELSE IF o.address[4] # "" THEN o.address[4]
    ELSE "Unknown"

\* get_city_from_coordinates on what the reverse endpoint did: the first of
\* city, town, village, hamlet that is set, "Unknown" when none is or when the
\* call raised (except Exception)
get_city_from_coordinates(o) ==
    IF o.tag # "ok" THEN "Unknown"
    ELSE IF o.address[1] # "" THEN o.address[1]
    ELSE IF o.address[2] # "" THEN o.address[2]
    ELSE IF o.address[3] # "" THEN o.address[3]
    ELSE IF o.address[4] # "" THEN o.address[4]
    ELSE "Unknown"

\* get_sunspot from its entry through the exact-key probe
get_sunspot(w, outcomes) ==
    /\ ~Returning
    /\ pc[w] = "get_sunspot"
    /\ LET r0 == req[w]
           d == resolve_date_param(r0.date_param, today)
       IN  CASE d.tag = "None" -> Step(w, FinalResponse(r0, NoData, "", ""), "done")
             [] d.tag = "ok" ->
                  \E o \in (IF r0.city_name = "" THEN outcomes ELSE {NoReverse}) :
                     LET city == IF r0.city_name = "" THEN get_city_from_coordinates(o)
                                 ELSE r0.city_name
                         r1 == [r0 EXCEPT
                                  !.rev = o,
                                  !.nRev = IF r0.city_name = "" THEN @ + 1 ELSE @,
                                  !.gs_city_name = city,
                                  !.gs_resolved_date_str = d.v,
                                  !.cache_key = CacheKey(city, r0.lat, r0.lon, d.v)]
                         r2 == [r1 EXCEPT !.nGet = @ + 1]
                         g == Get(redis, r1.cache_key)
                     IN  IF ~CacheAvailable(redis_client)
                         THEN Step(w, r1, "external_api")
                         ELSE IF ~redisUp
                         THEN Step(w, Raise(r2, "ConnectionError"), "done")
                         ELSE IF g.hit
                         THEN Step(w, FinalResponse([r2 EXCEPT !.gs_source = "cache"],
                                                    g.sun_data, d.v, city), "done")
                         ELSE Step(w, [r2 EXCEPT !.corrupt = @ \/ g.corrupt], "external_api")
             [] OTHER -> Step(w, Raise(r0, d.tag), "done")
    /\ UNCHANGED <<redis_client, conn_retry_count, redisUp, redis, today, served, web>>

\* redis_client.set(key, value, ex=ttl)
\* (note: who wrote the entry and on which day, kept for the properties)
Set(store, key, value, ttl, note) ==
    [k \in DOMAIN store \cup {key} |->
        IF k = key THEN [val |-> value, ttl |-> ttl, note |-> note] ELSE store[k]]

\* the ttl get_sunspot writes with
Ttl(date_str, now) == CACHE_TTL

\* the call to the sun-times provider, the write of its result, and the return
external_api_call(w) ==
    /\ ~Returning
    /\ pc[w] = "external_api"
    /\ \E outcome \in SunApiOutcomes :
          LET r == [req[w] EXCEPT !.nSun = @ + 1, !.sun = outcome]
              sun_data == IF outcome = "OK"
                          THEN SunResults(r.lat, r.lon, r.gs_resolved_date_str)
                          ELSE NoData
              writes == sun_data # NoData /\ CacheAvailable(redis_client)
              r1 == [r EXCEPT !.nSet = IF writes THEN @ + 1 ELSE @,
                              !.wrote = IF writes /\ redisUp THEN r.cache_key ELSE @]
          IN  /\ redis' = IF writes /\ redisUp
                          THEN Set(redis, r.cache_key, JsonDumps(sun_data),
                                   Ttl(r.gs_resolved_date_str, today),
                                   [day |-> Strftime(today),
                                    by |-> <<r.city, r.lat_param>>])
                          ELSE redis
              /\ Step(w, FinalResponse(r1, sun_data, r.gs_resolved_date_str, r.gs_city_name),
                      "done")
    /\ UNCHANGED <<redis_client, conn_retry_count, redisUp, today, served, web>>

Next ==
    \/ initialize_redis_client
    \/ RedisDown
    \/ RedisUp
    \/ Expire
    \/ Midnight
    \/ \E w \in Sequential : sunspot_view(w, Requests)
    \/ \E w \in Sequential : get_cached_sunspot_by_city_keys(w)
    \/ \E w \in Sequential : get_cached_sunspot_by_city_get(w)
    \/ \E w \in Sequential : get_cached_sunspot_by_coords_keys(w)
    \/ \E w \in Sequential : get_cached_sunspot_by_coords_get(w)
    \/ \E w \in Sequential : get_coordinates_from_city(w, GeocodeResults)
    \/ \E w \in Sequential : get_sunspot(w, ReverseOutcomes)
    \/ \E w \in Sequential : external_api_call(w)
    \/ \E w \in Sequential : return_response(w)

\* one worker, every query string
Spec == Init /\ [][Next]_vars

NextConcurrent ==
    \/ initialize_redis_client
    \/ RedisDown
    \/ RedisUp
    \/ Expire
    \/ Midnight
    \/ \E w \in Workers : sunspot_view(w, ConcurrentRequests)
    \/ \E w \in Workers : get_cached_sunspot_by_city_keys(w)
    \/ \E w \in Workers : get_cached_sunspot_by_city_get(w)
    \/ \E w \in Workers : get_cached_sunspot_by_coords_keys(w)
    \/ \E w \in Workers : get_cached_sunspot_by_coords_get(w)
    \/ \E w \in Workers : get_coordinates_from_city(w, GeocodeResults)
    \/ \E w \in Workers : get_sunspot(w, ReverseOutcomes)
    \/ \E w \in Workers : external_api_call(w)
    \/ \E w \in Workers : return_response(w)

\* two workers side by side, the well-formed query strings for today
SpecConcurrent == Init /\ [][NextConcurrent]_vars

NextEdge ==
    \/ initialize_redis_client
    \/ RedisDown
    \/ RedisUp
    \/ Expire
    \/ Corrupt
    \/ \E w \in Sequential : sunspot_view(w, EdgeRequests)
    \/ \E w \in Sequential : get_cached_sunspot_by_city_keys(w)
    \/ \E w \in Sequential : get_cached_sunspot_by_city_get(w)
    \/ \E w \in Sequential : get_cached_sunspot_by_coords_keys(w)
    \/ \E w \in Sequential : get_cached_sunspot_by_coords_get(w)
    \/ \E w \in Sequential : get_coordinates_from_city(w, EdgeGeocodeResults)
    \/ \E w \in Sequential : get_sunspot(w, EdgeReverseOutcomes)
    \/ \E w \in Sequential : external_api_call(w)
    \/ \E w \in Sequential : return_response(w)

\* one worker, a store whose values may stop decoding, and the edge query
\* strings
SpecEdge == Init /\ [][NextEdge]_vars

(***************************************************************************)
(* The date resolver alone: resolve_date_param called on any day with any  *)
(* date parameter.                                                         *)
(***************************************************************************)
\* the date parameters: absent, the keywords in several casings, dates, junk
DateParams ==
    {"", "today", "Today", "TODAY", "tOdAy", "yesterday", "Yesterday", "YESTERDAY",
     "tomorrow", "Tomorrow", "TOMORROW", "tomorroW",
     "2024-01-30", "2024-01-31", "31 Jan 2024", "not-a-date", "08335394550"}

InitDate ==
    /\ redis_client = "None"
    /\ conn_retry_count = REDIS_CONN_RETRY_COUNT
    /\ redisUp = FALSE
    /\ redis = <<>>
    /\ today \in 0..MaxDay
    /\ pc = [w \in Workers |-> "idle"]
    /\ req = [w \in Workers |-> NoRequest]
    /\ served = 0
    /\ api_keys = {}
    /\ mw = NoExchange
    /\ environ = [SUNSPOT_API_KEY |-> None]
    /\ fe = NoFetch

\* a call resolve_date_param(date_param): its result, or the exception it raises
call_resolve_date_param(w) ==
    /\ pc[w] = "idle"
    /\ \E date_param \in DateParams :
          LET d == resolve_date_param(date_param, today)
              r == [NoRequest EXCEPT !.date_param = date_param,
                                     !.resolved_date_str = d.v,
                                     !.exc = IF d.tag \in {"ok", "None"} THEN "none" ELSE d.tag]
          IN  Step(w, r, IF d.tag = "ok" THEN "resolved" ELSE "unresolved")
    /\ UNCHANGED <<redis_client, conn_retry_count, redisUp, redis, today, served, web>>

\* the caller takes the result
return_resolved(w) ==
    /\ pc[w] \in {"resolved", "unresolved"}
    /\ Step(w, NoRequest, "idle")
    /\ UNCHANGED <<redis_client, conn_retry_count, redisUp, redis, today, served, web>>

NextDate ==
    \/ \E w \in Sequential : call_resolve_date_param(w)
    \/ \E w \in Sequential : return_resolved(w)

SpecDate == InitDate /\ [][NextDate]_vars

(***************************************************************************)
(* APIKeyMiddleware.  A path is the list of its parts between the slashes: *)
(* "/api/sunspot" is <<"", "api", "sunspot">>, "/api" is <<"", "api">>.    *)
(***************************************************************************)
\* the paths requested, and the X-API-KEY headers they carry
Paths ==
    {<<"", "api", "sunspot">>, <<"", "api", "hello", "x">>, <<"", "api", "">>,
     <<"", "api">>, <<"", "status">>, <<"", "apix", "sunspot">>,
     <<"", "API", "sunspot">>}
Headers == {None} \cup {Some(v) : v \in {"", "k1", "k2", "bad"}}

\* the keys rows of ApiKey may hold
ApiKeyValues == {"", "k1", "k2"}

\* what a view answers with
ViewStatuses == {200, 404, 500}

\* request.path.startswith("/api/")
StartsWithApi(path) == Len(path) >= 3 /\ path[1] = "" /\ path[2] = "api"

ApiKeyExists_Unfiltered(api_key, keys) == keys # {}

\* ApiKey.objects.filter(key=api_key).exists()
ApiKeyExists(api_key, keys) == api_key \in keys

\* the middleware lets the request through to get_response
Pass == [status |-> 0, detail |-> ""]

\* APIKeyMiddleware.__call__ up to its return: the response it makes itself,
\* or Pass
APIKeyMiddleware(path, header, keys) ==
    IF StartsWithApi(path)
    THEN IF Falsy(header)
         THEN [status |-> 401, detail |-> "Missing API key"]
         ELSE IF ~ApiKeyExists(header.value, keys)
         THEN [status |-> 403, detail |-> "Invalid API key"]
         ELSE Pass
    ELSE Pass

InitMiddleware ==
    /\ redis_client = "None"
    /\ conn_retry_count = REDIS_CONN_RETRY_COUNT
    /\ redisUp = FALSE
    /\ redis = <<>>
    /\ today = 0
    /\ pc = [w \in Workers |-> "idle"]
    /\ req = [w \in Workers |-> NoRequest]
    /\ served = 0
    /\ api_keys = {}
    /\ mw = NoExchange
    /\ environ = [SUNSPOT_API_KEY |-> None]
    /\ fe = NoFetch

\* the tables of the backend besides ApiKey, and its workers
backend == <<redis_client, conn_retry_count, redisUp, redis, today, pc, req, served>>

\* a row of ApiKey is saved
ApiKey_save ==
    /\ \E k \in ApiKeyValues : api_keys' = api_keys \cup {k}
    /\ UNCHANGED <<backend, mw, environ, fe>>

\* a row of ApiKey is deleted
ApiKey_delete ==
    /\ \E k \in api_keys : api_keys' = api_keys \ {k}
    /\ UNCHANGED <<backend, mw, environ, fe>>

\* a request arrives at the middleware
receive_request ==
    /\ mw.at = "idle"
    /\ \E path \in Paths : \E header \in Headers :
          mw' = [NoExchange EXCEPT !.path = path, !.header = header, !.at = "middleware"]
    /\ UNCHANGED <<backend, api_keys, environ, fe>>

\* APIKeyMiddleware.__call__: its own response, or the call of get_response
APIKeyMiddleware_call ==
    /\ mw.at = "middleware"
    /\ LET res == APIKeyMiddleware(mw.path, mw.header, api_keys)
       IN  IF res = Pass
           THEN mw' = [mw EXCEPT !.at = "view", !.calls = @ + 1]
           ELSE mw' = [mw EXCEPT !.at = "responded", !.status = res.status,
                                 !.detail = res.detail]
    /\ UNCHANGED <<backend, api_keys, environ, fe>>

\* get_response(request) returns what the view (or the URL resolver) answered
get_response_returns ==
    /\ mw.at = "view"
    /\ \E n \in ViewStatuses : mw' = [mw EXCEPT !.at = "responded", !.status = n]
    /\ UNCHANGED <<backend, api_keys, environ, fe>>

\* the response leaves
send_response ==
    /\ mw.at = "responded"
    /\ mw' = NoExchange
    /\ UNCHANGED <<backend, api_keys, environ, fe>>

NextMiddleware ==
    \/ ApiKey_save
    \/ ApiKey_delete
    \/ receive_request
    \/ APIKeyMiddleware_call
    \/ get_response_returns
    \/ send_response

\* the API key check alone, any path and any header against any table of keys
SpecMiddleware == InitMiddleware /\ [][NextMiddleware]_vars

(***************************************************************************)
(* The frontend: its routes and fetch_sunspot, in front of the backend.    *)
(* The URL it builds is kept as the path and the list of name=value parts  *)
(* of the query (texts without "&", "=", "#").                             *)
(***************************************************************************)
\* the requests to the frontend: route, then city, lat, lon, date of the query
FrontendRequests ==
    {<<"/sunspot", "Paris", "", "", "">>, <<"/sunspot", "Paris", "40", "2.0", "">>,
     <<"/sunspot", "Paris", "abc", "2.0", "">>, <<"/sunspot", "Paris", "", "2.0", "Tomorrow">>,
     <<"/sunspot", "", "40", "2.0", "">>, <<"/sunspot", "", "abc", "2.0", "">>,
     <<"/sunspot", "", "40", "", "">>, <<"/sunspot", "", "", "", "Tomorrow">>,
     <<"/test/timeout", "", "", "", "">>, <<"/test/crash", "", "", "", "">>}

\* the values of SUNSPOT_API_KEY
Environs == {None, Some(""), Some("k1"), Some("bad")}

\* what answers for /api/timeout and /api/crash behind SUNSPOT_BACKEND_ENDPOINT
OtherStatuses == {200, 204, 401, 500, 502, 504}

\* request.GET.get(name) on the parsed query: the last value given, "" if none
Param(query, name) ==
    LET at == {i \in 1..Len(query) : query[i][1] = name}
    IN  IF at = {} THEN ""
        ELSE query[CHOOSE i \in at : \A j \in at : j <= i][2]

\* the query string the backend's view reads: city, lat, lon, date
BackendQuery(query) ==
    <<Param(query, "city"), Param(query, "lat"), Param(query, "lon"), Param(query, "date")>>

LocationParts_Both(city, lat, lon) ==
    (IF city # "" THEN <<<<"city", city>>>> ELSE <<>>)
    \o (IF lat # "" /\ lon # "" THEN <<<<"lat", lat>>, <<"lon", lon>>>> ELSE <<>>)

\* query_parts of sunspot_combined_query before the date is added
LocationParts(city, lat, lon) ==
    IF city # "" THEN <<<<"city", city>>>>
    ELSE IF lat # "" /\ lon # "" THEN <<<<"lat", lat>>, <<"lon", lon>>>>
    ELSE <<>>

fetch_sunspot_status_Collapsed(answer) ==
    IF answer.tag = "RequestException" THEN 503
    ELSE IF answer.status >= 400 /\ answer.status < 600
    THEN (IF answer.status = 401 THEN 401 ELSE IF answer.status = 504 THEN 504 ELSE 500)
    ELSE answer.status

\* the status fetch_sunspot returns for what requests.get came back with
\* (raise_for_status raises HTTPError for 4xx and 5xx)
fetch_sunspot_status(answer) ==
    IF answer.tag = "RequestException" THEN 503
    ELSE IF answer.status >= 400 /\ answer.status < 600
    THEN (IF answer.status = 401 THEN 401
          ELSE IF answer.status = 504 THEN 504
          ELSE answer.status)
    ELSE answer.status

\* fetch_sunspot returns to its route
Returned(f, answer) ==
    [f EXCEPT !.at = "returned", !.backend = answer, !.status = fetch_sunspot_status(answer)]

InitFrontend ==
    /\ redis_client = "unset"
    /\ conn_retry_count = 1
    /\ redisUp \in BOOLEAN
    /\ redis = <<>>
    /\ today = 0
    /\ pc = [w \in Workers |-> "idle"]
    /\ req = [w \in Workers |-> NoRequest]
    /\ served = 0
    /\ api_keys \in {{}, {"k1"}}
    /\ mw = NoExchange
    /\ environ \in {[SUNSPOT_API_KEY |-> e] : e \in Environs}
    /\ fe = NoFetch

\* Flask hands a request to its route
app_route ==
    /\ fe.at = "idle"
    /\ \E a \in FrontendRequests :
          fe' = [NoFetch EXCEPT !.route = a[1], !.city = a[2], !.lat = a[3],
                                !.lon = a[4], !.date = a[5], !.at = "route"]
    /\ UNCHANGED <<backend, api_keys, mw, environ>>

\* sunspot_combined_query up to its call of fetch_sunspot, or its own 400
sunspot_combined_query ==
    /\ fe.at = "route"
    /\ fe.route = "/sunspot"
    /\ LET query_parts == LocationParts(fe.city, fe.lat, fe.lon)
           date_part == IF fe.date # "" THEN <<<<"date", fe.date>>>> ELSE <<>>
       IN  IF query_parts = <<>>
           THEN fe' = [fe EXCEPT !.at = "returned", !.status = 400,
                                 !.result = "Missing 'city' or 'lat'/'lon' query parameters."]
           ELSE fe' = [fe EXCEPT !.at = "fetch", !.path = <<"", "api", "sunspot">>,
                                 !.query = query_parts \o date_part]
    /\ UNCHANGED <<backend, api_keys, mw, environ>>

\* sunspot_timeout_test and sunspot_crash_test up to their call of fetch_sunspot
sunspot_test_route ==
    /\ fe.at = "route"
    /\ fe.route \in {"/test/timeout", "/test/crash"}
    /\ fe' = [fe EXCEPT !.at = "fetch",
                        !.path = IF fe.route = "/test/timeout"
                                 THEN <<"", "api", "timeout">> ELSE <<"", "api", "crash">>]
    /\ UNCHANGED <<backend, api_keys, mw, environ>>

\* fetch_sunspot from its entry to requests.get, or its 500 without a key
fetch_sunspot ==
    /\ fe.at = "fetch"
    /\ LET api_key == environ.SUNSPOT_API_KEY
       IN  IF Falsy(api_key)
           THEN fe' = [fe EXCEPT !.at = "returned", !.status = 500,
                                 !.result = "Internal server error: API key not configured"]
           ELSE fe' = [fe EXCEPT !.at = "sent", !.header = Some(api_key.value),
                                 !.sent = @ + 1]
    /\ UNCHANGED <<backend, api_keys, mw, environ>>

\* requests.get raises: no connection to the backend
requests_get_raises(w) ==
    /\ fe.at = "sent"
    /\ pc[w] = "idle"
    /\ fe' = Returned(fe, RequestException)
    /\ UNCHANGED <<backend, api_keys, mw, environ>>

\* the backend's middleware answers the frontend's request itself
backend_refuses(w) ==
    /\ fe.at = "sent"
    /\ pc[w] = "idle"
    /\ LET res == APIKeyMiddleware(fe.path, fe.header, api_keys)
       IN  /\ res # Pass
           /\ fe' = Returned(fe, Response(res.status))
    /\ UNCHANGED <<backend, api_keys, mw, environ>>

\* the middleware passes the frontend's request to sunspot_view
backend_sunspot_view(w) ==
    /\ fe.at = "sent"
    /\ fe.path = <<"", "api", "sunspot">>
    /\ APIKeyMiddleware(fe.path, fe.header, api_keys) = Pass
    /\ sunspot_view(w, {BackendQuery(fe.query)})

\* sunspot_view's response travels back: requests.get returns it
backend_responds(w) ==
    /\ fe.at = "sent"
    /\ pc[w] = "done"
    /\ fe' = Returned(fe, Response(req[w].resp.status))
    /\ pc' = [pc EXCEPT ![w] = "idle"]
    /\ req' = [req EXCEPT ![w] = NoRequest]
    /\ UNCHANGED <<redis_client, conn_retry_count, redisUp, redis, today, served,
                   api_keys, mw, environ>>

\* the views behind /api/timeout and /api/crash answer
backend_other_view(w) ==
    /\ fe.at = "sent"
    /\ pc[w] = "idle"
    /\ fe.path # <<"", "api", "sunspot">>
    /\ APIKeyMiddleware(fe.path, fe.header, api_keys) = Pass
    /\ \E n \in OtherStatuses : fe' = Returned(fe, Response(n))
    /\ UNCHANGED <<backend, api_keys, mw, environ>>

\* the route returns (result, status)
route_returns ==
    /\ fe.at = "returned"
    /\ fe' = NoFetch
    /\ UNCHANGED <<backend, api_keys, mw, environ>>

\* the worker that serves the frontend, and the one that serves other clients
Forwarded == {"w1"}
Direct == {"w2"}

NextFrontend ==
    \/ initialize_redis_client
    \/ app_route
    \/ sunspot_combined_query
    \/ sunspot_test_route
    \/ fetch_sunspot
    \/ \E w \in Forwarded : requests_get_raises(w)
    \/ \E w \in Forwarded : backend_refuses(w)
    \/ \E w \in Forwarded : backend_sunspot_view(w)
    \/ \E w \in Forwarded : backend_responds(w)
    \/ \E w \in Forwarded : backend_other_view(w)
    \/ route_returns
    \/ \E w \in Direct : sunspot_view(w, BothRequests)
    \/ \E w \in Direct : return_response(w)
    \/ \E w \in Workers : get_cached_sunspot_by_city_keys(w)
    \/ \E w \in Workers : get_cached_sunspot_by_city_get(w)
    \/ \E w \in Workers : get_cached_sunspot_by_coords_keys(w)
    \/ \E w \in Workers : get_cached_sunspot_by_coords_get(w)
    \/ \E w \in Workers : get_coordinates_from_city(w, GeocodeResults)
    \/ \E w \in Workers : get_sunspot(w, ReverseOutcomes)
    \/ \E w \in Workers : external_api_call(w)

\* the frontend in front of the backend, and clients that call the backend
\* themselves
SpecFrontend == InitFrontend /\ [][NextFrontend]_vars

(***************************************************************************)
(* Properties.                                                             *)
(***************************************************************************)
Done(w) == pc[w] = "done"

\* the date parameter resolves (whatever the day)
ValidDate(r) == resolve_date_param(r.date_param, today).tag = "ok"

\* the request has a location form: a city, or both coordinates
CityForm(r) == r.city # ""
CoordsForm(r) == r.city = "" /\ r.lat_param # "" /\ r.lon_param # ""

\* the request issued no store operation
NoStoreOperation(r) == r.nKeys = 0 /\ r.nGet = 0 /\ r.nSet = 0

\* the request called no provider
NoProviderCall(r) == r.nGeo = 0 /\ r.nRev = 0 /\ r.nSun = 0

\* C1: with the store marked unreachable at startup (redis_client is None), a
\* city or coordinate request with a valid date whose geocoding and sun-times
\* calls succeed is answered 200 with source "api", issues no store operation
\* (no keys, get or set), and no exception escapes.
C1_CacheUnavailable ==
    \A w \in Workers :
        (/\ Done(w)
         /\ redis_client = "None"
         /\ CityForm(req[w]) \/ CoordsForm(req[w])
         /\ ValidDate(req[w])
         /\ req[w].geo # "notfound"
         /\ req[w].sun = "OK")
        => /\ req[w].resp.status = 200
           /\ req[w].resp.source = "api"
           /\ req[w].resp.sun_data = SunResults(req[w].lat, req[w].lon,
                                                req[w].resp.date_requested)
           /\ NoStoreOperation(req[w])
           /\ req[w].exc = "none"

C1_Witness ==
    \E w \in Workers :
        /\ Done(w)
        /\ redis_client = "None"
        /\ CoordsForm(req[w])
        /\ req[w].sun = "OK"
        /\ req[w].resp.status = 200

\* C2: once the store connected at startup, a store operation that fails during
\* a request is absorbed as a miss: no request ends in the store's exception.
C2_StoreFailureAbsorbed ==
    \A w \in Workers :
        (Done(w) /\ redis_client = "client") => req[w].exc # "ConnectionError"

\* the date a shortcut pattern ends with
PatternDate(r) == r.pattern[Len(r.pattern)]

\* the decoded payload of the entry at k
Payload(k) == JsonLoads(redis[k].val).v

\* the response is a cache hit that carries the entry at k: its payload, the
\* coordinates and the date of its key
ServedFrom(r, k) ==
    /\ r.resp.status = 200
    /\ r.resp.source = "cache"
    /\ r.resp.sun_data = Payload(k)
    /\ r.resp.latitude = KeyPart(k, 3)
    /\ r.resp.longitude = KeyPart(k, 4)
    /\ r.resp.date_requested = KeyPart(k, 5)

\* the entry at k is the answer to an earlier city request with the city text
\* and the date of the city request r, which met a reachable store
FirstCityAnswer(r, k) ==
    /\ CityForm(r)
    /\ r.pattern # NoKey
    /\ r.exc = "none"
    /\ redis[k].note.by[1] = r.city
    /\ KeyPart(k, 5) = PatternDate(r)
    /\ r.wrote # k

\* C3 as stated: once a city request was answered from upstream and written, an
\* identical city request, made while the store is reachable and the entry
\* unexpired, returns source "cache" with that answer's payload, latitude,
\* longitude and date, and calls neither provider.
C3_SameAsFirst ==
    \A w \in Workers : \A k \in DOMAIN redis :
        (Done(w) /\ FirstCityAnswer(req[w], k))
        => ServedFrom(req[w], k) /\ NoProviderCall(req[w])

\* C3 as amended: the scan of the identical request finds an entry, and when
\* the key enumerated first is unexpired when read the request returns source
\* "cache" with that key's payload, latitude, longitude and date and calls
\* neither provider; these are the first answer's when that key is its entry.
C3_ShortcutHit ==
    \A w \in Workers :
        /\ \A k \in DOMAIN redis :
              (Done(w) /\ FirstCityAnswer(req[w], k)) => req[w].keys0 # NoKey
        /\ (/\ Done(w)
            /\ CityForm(req[w])
            /\ req[w].exc = "none"
            /\ req[w].keys0 \in DOMAIN redis
            /\ req[w].wrote # req[w].keys0)
           => ServedFrom(req[w], req[w].keys0) /\ NoProviderCall(req[w])

C3_Witness ==
    \E w \in Workers : \E k \in DOMAIN redis :
        /\ Done(w)
        /\ FirstCityAnswer(req[w], k)
        /\ req[w].keys0 = k
        /\ req[w].resp.source = "cache"

\* C4: a cache write uses the short TTL constant when the resolved date is
\* today's date and the long TTL constant for every other date, so a write for
\* today and a write for another date never carry the same TTL.
C4_TtlByDate ==
    \A k1 \in DOMAIN redis : \A k2 \in DOMAIN redis :
        (KeyPart(k1, 5) = redis[k1].note.day /\ KeyPart(k2, 5) # redis[k2].note.day)
        => redis[k1].ttl # redis[k2].ttl

\* C5: whenever the exact-key probe hits (the payload is decoded from the entry
\* at the canonical key and the sun-times provider is not called), the result
\* carries source "cache".
C5_ExactHitSourceCache ==
    \A w \in Workers :
        (Done(w) /\ req[w].gs_source = "cache" /\ req[w].resp.status = 200)
        => req[w].resp.source = "cache"

\* C6: a request, city form or coordinate form, whose date parameter cannot be
\* resolved is answered InvalidDate (400); no provider is contacted and the
\* cache is neither read nor written.
C6_InvalidDate ==
    \A w \in Workers :
        (/\ Done(w)
         /\ CityForm(req[w]) \/ CoordsForm(req[w])
         /\ ~ValidDate(req[w]))
        => /\ req[w].resp.status = 400
           /\ req[w].resp.error = "Invalid date parameter"
           /\ NoProviderCall(req[w])
           /\ NoStoreOperation(req[w])

\* C7: when the call to the sun-times provider fails in transport or returns a
\* status other than OK, the request is answered 503, not 404 or 400, and the
\* call leaves the cache as it was.
C7_UpstreamUnavailable ==
    [][\A w \in Workers :
          (/\ pc[w] = "external_api"
           /\ pc'[w] = "done"
           /\ req'[w].sun \in {"NOT_OK", "ERROR"})
          => /\ req'[w].resp.status = 503
             /\ req'[w].nSet = 0
             /\ redis' = redis]_vars

C7_Witness ==
    \E w \in Workers :
        /\ Done(w)
        /\ req[w].sun = "ERROR"
        /\ req[w].resp.status = 503
        /\ redis # <<>>

\* C8: a city request whose shortcut missed and for which the geocoding adapter
\* found nothing is answered 404; the sun-times provider is not called and
\* nothing is written to the cache.
C8_LocationNotFound ==
    \A w \in Workers :
        (Done(w) /\ CityForm(req[w]) /\ req[w].geo = "notfound")
        => /\ req[w].resp.status = 404
           /\ req[w].nSun = 0
           /\ req[w].nSet = 0
           /\ req[w].wrote = NoKey

C8_Witness ==
    \E w \in Workers :
        /\ Done(w)
        /\ req[w].geo = "notfound"
        /\ req[w].nKeys = 1
        /\ req[w].resp.status = 404

\* the entry at k is the answer to an earlier coordinate request whose
\* latitude and longitude texts denote the numbers of the coordinate request r
SameNumbers(r, k) ==
    /\ CoordsForm(r)
    /\ Float(r.lat_param).ok /\ Float(r.lon_param).ok
    /\ redis[k].note.by[1] = ""
    /\ Float(redis[k].note.by[2]).v = Float(r.lat_param).v
    /\ Float(KeyPart(k, 4)).v = Float(r.lon_param).v

\* C9: two coordinate requests whose latitude and longitude texts denote the
\* same numbers, with the same date, build the same canonical key (under the
\* same city label), and with a reachable store the second finds the entry the
\* first one wrote and is a cache hit when the key it found is unexpired.
C9_NumericCanonicalization ==
    \A w \in Workers : \A k \in DOMAIN redis :
        /\ (/\ SameNumbers(req[w], k)
            /\ req[w].cache_key # NoKey
            /\ KeyPart(k, 2) = Lower(req[w].gs_city_name)
            /\ KeyPart(k, 5) = req[w].gs_resolved_date_str)
           => req[w].cache_key = k
        /\ (/\ Done(w)
            /\ SameNumbers(req[w], k)
            /\ req[w].pattern # NoKey
            /\ req[w].exc = "none"
            /\ KeyPart(k, 5) = PatternDate(req[w])
            /\ req[w].wrote # k)
           => /\ req[w].keys0 # NoKey
              /\ (req[w].keys0 \in DOMAIN redis /\ req[w].wrote # req[w].keys0)
                 => /\ req[w].resp.status = 200
                    /\ req[w].resp.source = "cache"
                    /\ req[w].resp.latitude = KeyPart(k, 3)
                    /\ NoProviderCall(req[w])

C9_Witness ==
    \E w \in Workers : \E k \in DOMAIN redis :
        /\ Done(w)
        /\ SameNumbers(req[w], k)
        /\ redis[k].note.by[2] # req[w].lat_param
        /\ req[w].keys0 = k
        /\ req[w].resp.source = "cache"

\* the entry at k is the answer to an earlier city request whose city text is
\* that of the city request r up to letter case
SameCityUpToCase(r, k) ==
    /\ CityForm(r)
    /\ redis[k].note.by[1] # ""
    /\ Title(Strip(redis[k].note.by[1])) = Title(Strip(r.city))

\* C10 as stated: of two city requests whose city names differ only in letter
\* case and which resolve to the same date, the second is served from the entry
\* the first one wrote.
C10_ServedFromFirst ==
    \A w \in Workers : \A k \in DOMAIN redis :
        (/\ Done(w)
         /\ SameCityUpToCase(req[w], k)
         /\ redis[k].note.by[1] # req[w].city
         /\ req[w].pattern # NoKey
         /\ req[w].exc = "none"
         /\ KeyPart(k, 5) = PatternDate(req[w])
         /\ req[w].wrote # k)
        => ServedFrom(req[w], k)

\* C10 as amended: two city requests whose city names differ only in letter
\* case, and which resolve to the same date, build the same shortcut pattern and
\* (for the same coordinates) the same canonical key; the second one's pattern
\* matches the entry the first one wrote, its scan finds an entry, and it is
\* served from the first one's entry when that is the key the scan enumerates
\* first.
C10_CaseInsensitive ==
    \A w \in Workers : \A k \in DOMAIN redis :
        /\ (/\ SameCityUpToCase(req[w], k)
            /\ req[w].pattern # NoKey
            /\ KeyPart(k, 5) = PatternDate(req[w]))
           => /\ GlobMatch(req[w].pattern, k)
              /\ req[w].pattern = CityPattern(redis[k].note.by[1], KeyPart(k, 5))
              /\ (Done(w) /\ req[w].exc = "none" /\ req[w].wrote # k)
                 => /\ req[w].keys0 # NoKey
                    /\ req[w].keys0 = k => ServedFrom(req[w], k)
        /\ (/\ SameCityUpToCase(req[w], k)
            /\ req[w].cache_key # NoKey
            /\ KeyPart(k, 3) = req[w].lat /\ KeyPart(k, 4) = req[w].lon
            /\ KeyPart(k, 5) = req[w].gs_resolved_date_str)
           => req[w].cache_key = k

C10_Witness ==
    \E w \in Workers : \E k \in DOMAIN redis :
        /\ Done(w)
        /\ SameCityUpToCase(req[w], k)
        /\ redis[k].note.by[1] # req[w].city
        /\ req[w].keys0 = k
        /\ req[w].resp.source = "cache"
\* the texts of the form YYYY-MM-DD within the model's calendar
IsoDates ==
    {"2024-" \o m \o "-" \o d :
        m \in {"01", "02"},
        d \in {"01", "02", "03", "04", "05", "06", "07", "08", "09"}
               \cup {ToString(n) : n \in 10..31}}

\* C11: on a fixed current date, resolve_date_param returns the current date for
\* an absent parameter and for "today", the day before for "yesterday" and the
\* day after for "tomorrow", whatever the letter case of the keyword, and every
\* date it returns has the form YYYY-MM-DD.
C11_DateKeywords ==
    \A w \in Workers :
        LET r == req[w]
        IN  /\ (pc[w] \in {"resolved", "unresolved"}
                /\ r.date_param \in {"", "today", "Today", "TODAY", "tOdAy"})
                => pc[w] = "resolved" /\ r.resolved_date_str = Strftime(today)
            /\ (pc[w] \in {"resolved", "unresolved"}
                /\ r.date_param \in {"yesterday", "Yesterday", "YESTERDAY"})
                => pc[w] = "resolved" /\ r.resolved_date_str = Strftime(today - 1)
            /\ (pc[w] \in {"resolved", "unresolved"}
                /\ r.date_param \in {"tomorrow", "Tomorrow", "TOMORROW", "tomorroW"})
                => pc[w] = "resolved" /\ r.resolved_date_str = Strftime(today + 1)
            /\ pc[w] = "resolved" => r.resolved_date_str \in IsoDates

C11_Witness ==
    \E w \in Workers :
        /\ pc[w] = "resolved"
        /\ req[w].date_param = "YESTERDAY"
        /\ today = 2
        /\ req[w].resolved_date_str = "2024-01-31"
\* the value stored at k decodes / does not decode
Decodable(k) == redis[k].val[1] = "json"
Undecodable(k) == redis[k].val[1] # "json"

\* C12: when the key the city scan found is read and holds a decodable payload,
\* the city request returns at once as a cache hit whose latitude and longitude
\* are the components of that key and whose payload is the value stored at it;
\* no provider was contacted during the request.
C12_CityShortcutHit ==
    [][\A w \in Workers :
          (/\ pc[w] = "city_get"
           /\ pc'[w] # "city_get"
           /\ redisUp
           /\ req[w].keys0 \in DOMAIN redis
           /\ Decodable(req[w].keys0))
          => /\ pc'[w] = "done"
             /\ req'[w].resp.status = 200
             /\ req'[w].resp.source = "cache"
             /\ req'[w].resp.latitude = KeyPart(req[w].keys0, 3)
             /\ req'[w].resp.longitude = KeyPart(req[w].keys0, 4)
             /\ req'[w].resp.sun_data = redis[req[w].keys0].val[2]
             /\ NoProviderCall(req'[w])
             /\ req'[w].nSet = 0]_vars

C12_Witness ==
    \E w \in Workers :
        /\ Done(w)
        /\ req[w].city = "Paris"
        /\ req[w].keys0 \in DOMAIN redis
        /\ redis[req[w].keys0].note.by[1] = ""
        /\ req[w].resp.source = "cache"
        /\ req[w].resp.latitude = "41.5"
        /\ \E k \in DOMAIN redis : Undecodable(k)

\* C13: when the key the coordinate scan found is read and holds a decodable
\* payload, the coordinate request returns as a cache hit whose city is the
\* label component of that key; neither reverse geocoding nor the sun-times
\* provider was called during the request.
C13_CoordsShortcutHit ==
    [][\A w \in Workers :
          (/\ pc[w] = "coords_get"
           /\ pc'[w] # "coords_get"
           /\ redisUp
           /\ req[w].keys0 \in DOMAIN redis
           /\ Decodable(req[w].keys0))
          => /\ pc'[w] = "done"
             /\ req'[w].resp.status = 200
             /\ req'[w].resp.source = "cache"
             /\ req'[w].resp.city = Title(KeyPart(req[w].keys0, 2))
             /\ req'[w].resp.sun_data = redis[req[w].keys0].val[2]
             /\ req'[w].nRev = 0
             /\ req'[w].nSun = 0]_vars

C13_Witness ==
    \E w \in Workers :
        /\ Done(w)
        /\ CoordsForm(req[w])
        /\ req[w].keys0 \in DOMAIN redis
        /\ redis[req[w].keys0].note.by[1] = "Paris"
        /\ req[w].resp.source = "cache"
        /\ req[w].resp.city = "Paris"
        /\ req[w].nRev = 0
\* the coordinate texts of the requests that are not numbers
NotNumbers == {"abc", "x"}

\* C14: a coordinate request whose latitude or longitude is not a number is
\* answered 400 "Invalid lat/lon format", and a request with neither a city nor
\* both coordinates is answered 400 "Missing city or lat/lon"; either is
\* answered before any store operation and any provider call.
C14_InvalidCoordinates ==
    \A w \in Workers :
        LET r == req[w]
        IN  /\ (/\ Done(w)
                /\ CoordsForm(r)
                /\ r.lat_param \in NotNumbers \/ r.lon_param \in NotNumbers)
                => /\ r.resp.status = 400
                   /\ r.resp.error = "Invalid lat/lon format"
                   /\ r.exc = "none"
                   /\ NoStoreOperation(r)
                   /\ NoProviderCall(r)
            /\ (/\ Done(w)
                /\ r.city = ""
                /\ r.lat_param = "" \/ r.lon_param = "")
                => /\ r.resp.status = 400
                   /\ r.resp.error = "Missing city or lat/lon"
                   /\ r.exc = "none"
                   /\ NoStoreOperation(r)
                   /\ NoProviderCall(r)

C14_Witness ==
    \E w \in Workers :
        /\ Done(w)
        /\ redis_client = "client"
        /\ redis # <<>>
        /\ req[w].city = ""
        /\ req[w].lat_param = "40"
        /\ req[w].lon_param = "x"
        /\ req[w].resp.status = 400
\* C15 as stated: in every execution of a single request, also when the key the
\* scan found has expired or holds a corrupt payload, the request issues at
\* most one pattern scan, at most one payload read and at most one payload
\* write.
C15_AtMostOneEach ==
    \A w \in Workers :
        req[w].nKeys <= 1 /\ req[w].nGet <= 1 /\ req[w].nSet <= 1

\* C15 as amended: a request issues at most one pattern scan, at most two
\* payload reads and at most one payload write; the second read is that of the
\* exact key, issued only after the read of the key the scan found came back a
\* miss (the key expired, or its payload is corrupt).
C15_StoreOperations ==
    \A w \in Workers :
        /\ req[w].nKeys <= 1
        /\ req[w].nGet <= 2
        /\ req[w].nSet <= 1
        /\ req[w].nGet = 2
           => /\ req[w].nKeys = 1
              /\ req[w].keys0 # NoKey
              /\ req[w].cache_key # NoKey
              /\ req[w].source = "api"
        /\ req[w].nSet = 1 => req[w].nSun = 1 /\ req[w].sun = "OK"

C15_Witness ==
    \E w \in Workers :
        /\ Done(w)
        /\ req[w].corrupt
        /\ req[w].nKeys = 1
        /\ req[w].nGet = 2
        /\ req[w].nSet = 1
        /\ req[w].resp.status = 200

\* C16: every request makes at most one call to the geocoding provider, a
\* forward lookup or a reverse lookup and never both, and at most one call to
\* the sun-times provider.
C16_OneCallPerProvider ==
    \A w \in Workers :
        req[w].nGeo + req[w].nRev <= 1 /\ req[w].nSun <= 1

\* C19: a stored payload that does not decode is treated like a miss on every
\* lookup path: the read of the key a scan found goes on to geocoding (city) or
\* to the resolver (coordinates), the read of the exact key goes on to the
\* sun-times provider, nothing is raised, and when the fetch then succeeds with
\* the store reachable the canonical key holds the fetched payload, encoded.
C19_CorruptIsMiss ==
    [][\A w \in Workers :
          /\ (/\ pc[w] = "city_get" /\ pc'[w] # "city_get"
               /\ redisUp
               /\ req[w].keys0 \in DOMAIN redis /\ Undecodable(req[w].keys0))
              => pc'[w] = "get_coordinates" /\ req'[w].exc = "none"
                    /\ req'[w].resp = NoResponse
          /\ (/\ pc[w] = "coords_get" /\ pc'[w] # "coords_get"
               /\ redisUp
               /\ req[w].keys0 \in DOMAIN redis /\ Undecodable(req[w].keys0))
              => pc'[w] = "get_sunspot" /\ req'[w].exc = "none"
                    /\ req'[w].resp = NoResponse
          /\ (/\ pc[w] = "get_sunspot" /\ pc'[w] # "get_sunspot"
               /\ redisUp /\ redis_client = "client"
               /\ req'[w].cache_key \in DOMAIN redis /\ Undecodable(req'[w].cache_key))
              => pc'[w] = "external_api" /\ req'[w].exc = "none"
                    /\ req'[w].resp = NoResponse
          /\ (/\ pc[w] = "external_api" /\ pc'[w] = "done"
               /\ req[w].corrupt
               /\ req'[w].sun = "OK"
               /\ redisUp)
              => /\ req'[w].resp.status = 200
                 /\ req'[w].cache_key \in DOMAIN redis'
                 /\ redis'[req'[w].cache_key].val
                       = JsonDumps(SunResults(req'[w].lat, req'[w].lon,
                                              KeyPart(req'[w].cache_key, 5)))
                 /\ req'[w].resp.sun_data = redis'[req'[w].cache_key].val[2]]_vars

C19_Witness ==
    \E w \in Workers :
        /\ Done(w)
        /\ req[w].corrupt
        /\ req[w].keys0 = req[w].cache_key
        /\ req[w].nGet = 2
        /\ req[w].resp.status = 200
        /\ Decodable(req[w].cache_key)
\* the configured maximum number of connection attempts
MaxAttempts == REDIS_CONN_RETRY_COUNT

\* C17: the startup connection makes at most the configured number of attempts
\* and at least one: an attempt whose ping succeeds ends it with a client, a
\* failed attempt is followed by the next one while attempts remain, the last
\* failed attempt ends it with None, and once ended it makes no further attempt.
C17_BoundedStartup ==
    [][/\ conn_retry_count' \in 1..MaxAttempts
       /\ conn_retry_count' \in {conn_retry_count, conn_retry_count + 1}
       /\ (redis_client = "unset" /\ redis_client' = "client") => redisUp
       /\ (redis_client = "unset" /\ redis_client' = "None")
          => ~redisUp /\ conn_retry_count = MaxAttempts
       /\ conn_retry_count' = conn_retry_count + 1
          => ~redisUp /\ redis_client = "unset" /\ redis_client' = "unset"
       /\ redis_client # "unset"
          => redis_client' = redis_client /\ conn_retry_count' = conn_retry_count
       /\ redis_client' = "None" => conn_retry_count' = MaxAttempts]_vars

C17_Witness ==
    /\ redis_client = "client"
    /\ conn_retry_count = 2
    /\ served = 0

\* C18: once the startup connection has given up (redis_client is None), the
\* handle stays None, no reconnect is attempted, and no request issues a store
\* operation, also when the store is reachable again.
C18_StaysUnavailable ==
    [][redis_client = "None"
       => /\ redis_client' = "None"
          /\ conn_retry_count' = conn_retry_count
          /\ redis' = redis
          /\ \A w \in Workers : NoStoreOperation(req'[w])]_vars

C18_Witness ==
    \E w \in Workers :
        /\ redis_client = "None"
        /\ redisUp
        /\ Done(w)
        /\ CityForm(req[w])
        /\ req[w].resp.status = 200

\* C20: every entry of the store sits at a key prefix:city:lat:lon:date, with
\* the city in lower case, and holds the (non-empty) results the sun-times
\* provider returned with status OK for that lat, lon and date, JSON-encoded;
\* a step of a request changes the store only by the write that follows such a
\* fetch, which sets the request's canonical key and removes nothing.
C20_EntriesAreFetchedResults ==
    /\ [](\A k \in DOMAIN redis :
            /\ Len(k) = 6
            /\ SubSeq(k, 1, 2) = REDIS_KEY_PREFIX
            /\ KeyPart(k, 2) \in {"paris", "unknown"}
            /\ Float(KeyPart(k, 3)).ok /\ Float(KeyPart(k, 4)).ok
            /\ KeyPart(k, 5) \in IsoDates
            /\ redis[k].val
                  = <<"json", SunResults(KeyPart(k, 3), KeyPart(k, 4), KeyPart(k, 5))>>
            /\ redis[k].val[2] # NoData)
    /\ [][\A w \in Workers :
             pc'[w] # pc[w]
             => /\ DOMAIN redis \subseteq DOMAIN redis'
                /\ redis' # redis
                   => /\ pc[w] = "external_api"
                      /\ req'[w].sun = "OK"
                      /\ req'[w].nSun = 1
                      /\ DOMAIN redis' = DOMAIN redis \cup {req'[w].cache_key}
                      /\ \A k \in DOMAIN redis \ {req'[w].cache_key} :
                            redis'[k] = redis[k]]_vars

C20_Witness ==
    \E k1 \in DOMAIN redis : \E k2 \in DOMAIN redis :
        /\ KeyPart(k1, 2) = "paris" /\ KeyPart(k2, 2) = "unknown"
        /\ KeyPart(k1, 5) # KeyPart(k2, 5)
        /\ KeyPart(k1, 3) # KeyPart(k2, 3)
\* the steps of a request that read the store
ReadSteps == {"city_keys", "city_get", "coords_keys", "coords_get", "get_sunspot"}

\* the request was answered from a stored entry: by a shortcut, or by the
\* exact-key probe
CacheHit(r) == r.resp.status = 200 /\ (r.source = "cache" \/ r.gs_source = "cache")

\* C21: a request served as a cache hit (city shortcut, coordinate shortcut or
\* exact-key probe) leaves the store as it was: each of its reading steps keeps
\* every entry, value and expiry, and it has issued no write.
C21_HitLeavesStore ==
    /\ [](\A w \in Workers :
            (Done(w) /\ CacheHit(req[w]))
            => req[w].nSet = 0 /\ req[w].wrote = NoKey /\ req[w].nSun = 0)
    /\ [][\A w \in Workers :
            (pc[w] \in ReadSteps /\ pc'[w] # pc[w]) => redis' = redis]_vars

C21_Witness ==
    \E w \in Workers :
        /\ Done(w)
        /\ req[w].resp.status = 200
        /\ req[w].gs_source = "cache"
        /\ req[w].cache_key \in DOMAIN redis
        /\ req[w].nKeys = 1
\* the keys that match the request's pattern besides the one its scan took
OtherMatches(r) == {k \in Keys(redis, r.pattern) : k # r.keys0}

\* the key the scan took holds a payload that decodes
FirstKeyReadable(r) == r.keys0 \in DOMAIN redis /\ redis[r.keys0].val[1] = "json"

\* C22: when several keys match a shortcut pattern, the shortcut reads one key,
\* the one enumerated first: a hit carries that key's payload with that key's
\* coordinates (city shortcut) or that key's label (coordinate shortcut), and
\* when that key's value is missing or does not decode the shortcut reports a
\* miss, whatever the other matching keys hold.
C22_OnlyFirstKey ==
    [][\A w \in Workers :
          (/\ pc[w] \in {"city_get", "coords_get"}
           /\ pc'[w] # pc[w]
           /\ redisUp
           /\ OtherMatches(req[w]) # {})
          => /\ req'[w].nGet = req[w].nGet + 1
             /\ req'[w].keys0 = req[w].keys0
             /\ IF FirstKeyReadable(req[w])
                THEN /\ pc'[w] = "done"
                     /\ req'[w].resp.sun_data = redis[req[w].keys0].val[2]
                     /\ pc[w] = "city_get"
                        => /\ req'[w].resp.latitude = KeyPart(req[w].keys0, 3)
                           /\ req'[w].resp.longitude = KeyPart(req[w].keys0, 4)
                     /\ pc[w] = "coords_get"
                        => req'[w].resp.city = Title(KeyPart(req[w].keys0, 2))
                ELSE /\ pc'[w] = (IF pc[w] = "city_get" THEN "get_coordinates"
                                  ELSE "get_sunspot")
                     /\ req'[w].resp = NoResponse
                     /\ req'[w].source = "api"]_vars

\* the first key's read missed while another matching key held a payload
C22_Witness ==
    \E w \in Workers :
        /\ pc[w] \in {"get_coordinates", "get_sunspot"}
        /\ req[w].nGet = 1
        /\ req[w].keys0 # NoKey
        /\ ~FirstKeyReadable(req[w])
        /\ \E k \in OtherMatches(req[w]) : redis[k].val[1] = "json"
\* the coordinate components of key k are renderings of floats
CanonicalCoordinates(k) ==
    /\ KeyPart(k, 3) = Canonical(KeyPart(k, 3))
    /\ KeyPart(k, 4) = Canonical(KeyPart(k, 4))

\* C23: every canonical cache key, on the city path as on the coordinate path,
\* carries its latitude and longitude in the canonical decimal-string form
\* (the text parsed as a float and rendered again).
C23_CanonicalKeys ==
    /\ \A k \in DOMAIN redis : CanonicalCoordinates(k)
    /\ \A w \in Workers :
          req[w].cache_key # NoKey => CanonicalCoordinates(req[w].cache_key)
\* the reverse lookup of the request raised inside get_city_from_coordinates
ReverseFailed(r) == r.rev.tag \in {"Timeout", "HTTPError"}

\* C24: get_city_from_coordinates never fails outward: it returns the first set
\* field of city, town, village, hamlet of the address, and "Unknown" when the
\* call raised or no field is set; a coordinate request whose reverse lookup
\* raised goes on to the exact-key probe and the fetch under the label
\* "unknown", and is answered 200 when the fetch succeeds.
C24_ReverseNeverFails ==
    \A w \in Workers :
        LET r == req[w]
            a == r.rev.address
        IN  /\ r.rev.tag # "none"
               => /\ r.gs_city_name # ""
                  /\ r.nRev = 1
                  /\ pc[w] \in {"external_api", "done"}
                  /\ r.exc \notin {"Timeout", "HTTPError"}
                  /\ ReverseFailed(r) => r.gs_city_name = "Unknown"
                  /\ r.rev.tag = "ok"
                     => /\ \A i \in 1..4 :
                              (a[i] # "" /\ \A j \in 1..(i - 1) : a[j] = "")
                              => r.gs_city_name = a[i]
                        /\ (\A i \in 1..4 : a[i] = "") => r.gs_city_name = "Unknown"
            /\ (ReverseFailed(r) /\ r.city = "")
               => /\ KeyPart(r.cache_key, 2) = "unknown"
                  /\ redis_client = "client" => r.nGet >= 1
                  /\ (Done(w) /\ r.sun = "OK" /\ r.exc = "none")
                     => /\ r.resp.status = 200
                        /\ r.resp.city = "Unknown"
                        /\ r.resp.sun_data # NoData
                        /\ r.nSun = 1

C24_Witness ==
    \E w \in Workers :
        /\ Done(w)
        /\ CoordsForm(req[w])
        /\ req[w].rev.tag = "HTTPError"
        /\ req[w].resp.status = 200
        /\ req[w].resp.city = "Unknown"
        /\ req[w].wrote # NoKey
        /\ KeyPart(req[w].wrote, 2) = "unknown"
\* C25: within one request the date is resolved to a single value: the date of
\* the shortcut pattern, the date of the canonical key (with which the provider
\* is asked) and date_requested of the response are the same date, also when
\* the day changes while the request is processed.
C25_SingleDate ==
    \A w \in Workers :
        LET r == req[w]
        IN  /\ (r.pattern # NoKey /\ r.cache_key # NoKey)
               => /\ KeyPart(r.cache_key, 5) = PatternDate(r)
                  /\ r.gs_resolved_date_str = PatternDate(r)
            /\ (Done(w) /\ r.resp.status = 200 /\ r.pattern # NoKey)
               => r.resp.date_requested = PatternDate(r)
            /\ (Done(w) /\ r.resp.status = 200 /\ r.cache_key # NoKey)
               => r.resp.date_requested = KeyPart(r.cache_key, 5)
\* C26: the store never holds two entries for the same latitude, longitude and
\* date under different city labels, however coordinate requests interleave
\* (so the city a coordinate-shortcut hit reports does not depend on which
\* matching key is enumerated first).
C26_OneLabelPerPlace ==
    \A k1 \in DOMAIN redis : \A k2 \in DOMAIN redis :
        (/\ KeyPart(k1, 3) = KeyPart(k2, 3)
         /\ KeyPart(k1, 4) = KeyPart(k2, 4)
         /\ KeyPart(k1, 5) = KeyPart(k2, 5))
        => KeyPart(k1, 2) = KeyPart(k2, 2)
\* C27: a request whose path starts with /api/ reaches a view only with an
\* X-API-KEY header equal to a stored ApiKey.key: without the header it is
\* answered 401, with a key that is not stored 403, in both cases without the
\* view being called; any other path is passed to the view with no key check.
C27_ApiKeyRequired ==
    [][LET api == Len(mw.path) >= 3 /\ mw.path[1] = "" /\ mw.path[2] = "api"
       IN  /\ (mw.at # "view" /\ mw'.at = "view")
              => /\ mw.at = "middleware"
                 /\ mw'.calls = 1
                 /\ api => (mw.header.present /\ mw.header.value \in api_keys)
           /\ (mw.at = "middleware" /\ mw'.at # "middleware")
              => /\ (api /\ ~mw.header.present)
                    => /\ mw'.at = "responded" /\ mw'.status = 401
                       /\ mw'.detail = "Missing API key" /\ mw'.calls = 0
                 /\ (api /\ mw.header.present /\ mw.header.value # ""
                         /\ mw.header.value \notin api_keys)
                    => /\ mw'.at = "responded" /\ mw'.status = 403
                       /\ mw'.detail = "Invalid API key" /\ mw'.calls = 0
                 /\ ~api => (mw'.at = "view" /\ mw'.calls = 1)]_vars

\* a request for /api/... that was refused with a key that is not stored, while
\* other keys are
C27_Witness ==
    /\ mw.at = "responded"
    /\ mw.path = <<"", "api", "sunspot">>
    /\ mw.header = Some("bad")
    /\ api_keys = {"k1", "k2"}
    /\ mw.status = 403
    /\ mw.calls = 0
\* the request names a city and at least one coordinate as well
CityAndCoordinates(city, lat, lon) == city # "" /\ (lat # "" \/ lon # "")

\* C28: a request that supplies a city together with lat and lon is handled in
\* the city form alone: the frontend forwards the city (and the date) and no
\* coordinate, and the backend handler neither validates the coordinates nor
\* uses them: its pattern is the city pattern, and the coordinates of its key
\* and of its provider call are the geocoder's.
C28_CityFormWins ==
    /\ (/\ fe.route = "/sunspot"
         /\ fe.at \in {"fetch", "sent", "returned"}
         /\ CityAndCoordinates(fe.city, fe.lat, fe.lon))
        => /\ fe.query # <<>>
           /\ Param(fe.query, "city") = fe.city
           /\ \A i \in 1..Len(fe.query) : fe.query[i][1] \in {"city", "date"}
           /\ fe.sent = 0 => fe.status # 400
    /\ \A w \in Workers :
          LET r == req[w]
          IN  CityAndCoordinates(r.city, r.lat_param, r.lon_param)
              => /\ r.resp.error \notin {"Invalid lat/lon format", "Missing city or lat/lon"}
                 /\ r.pattern # NoKey => (r.pattern[3] # "*" /\ r.pattern[4] = "*")
                 /\ r.lat = "" \/ (r.geo = "found" /\ <<r.lat, r.lon>> \in GeocodeResults)
                 /\ r.cache_key # NoKey
                    => /\ r.geo = "found"
                       /\ KeyPart(r.cache_key, 3) = r.lat
                       /\ KeyPart(r.cache_key, 4) = r.lon
                 /\ r.nSun > 0 => r.geo = "found"

\* a city with a latitude that is no number, answered 200 through the frontend
\* and by the backend itself
C28_Witness ==
    /\ fe.at = "returned"
    /\ fe.city = "Paris" /\ fe.lat = "abc" /\ fe.lon = "2.0"
    /\ fe.backend = Response(200)
    /\ \E w \in Direct :
          /\ Done(w)
          /\ req[w].city = "Paris" /\ req[w].lat_param = "abc"
          /\ req[w].resp.status = 200
          /\ req[w].nSun = 1

\* C29: fetch_sunspot returns the status of the backend's response unchanged,
\* whatever it is, 503 when requests.get raises because the backend cannot be
\* reached, and 500 without sending a request when SUNSPOT_API_KEY is not
\* set.
C29_StatusPassthrough ==
    [][/\ (fe.at = "fetch" /\ fe'.at # "fetch")
          => IF ~environ.SUNSPOT_API_KEY.present \/ environ.SUNSPOT_API_KEY.value = ""
             THEN /\ fe'.at = "returned"
                  /\ fe'.status = 500
                  /\ fe'.sent = 0
                  /\ fe'.backend.tag = "none"
             ELSE /\ fe'.at = "sent"
                  /\ fe'.sent = 1
                  /\ fe'.header = [present |-> TRUE, value |-> environ.SUNSPOT_API_KEY.value]
       /\ (fe.at = "sent" /\ fe'.at # "sent")
          => /\ fe'.at = "returned"
             /\ fe'.backend.tag \in {"response", "RequestException"}
             /\ fe'.backend.tag = "response" => fe'.status = fe'.backend.status
             /\ fe'.backend.tag = "RequestException" => fe'.status = 503
             /\ \A w \in Forwarded :
                   pc[w] = "done" => fe'.backend = [tag |-> "response",
                                                   status |-> req[w].resp.status]]_vars

\* the backend's own 404 came back as 404
C29_Witness ==
    /\ fe.at = "returned"
    /\ fe.route = "/sunspot"
    /\ fe.backend = Response(404)
    /\ fe.status = 404
    /\ fe.sent = 1
====
